---- MODULE Spec2Model ----
(***************************************************************************)
(* Raw2Ready front end: the multi-stage workflow Landing -> Form ->        *)
(* Results -> Presentation/Video, its localStorage persistence and its     *)
(* request/response handling, as a state machine.                          *)
(*                                                                         *)
(* Text values (what the user types, what the server answers) are          *)
(* sequences of tokens; the token SP is a whitespace character, every      *)
(* other token stands for a run of non-whitespace characters.  <<>> is the *)
(* empty string; for the nullable banners and optional response fields,    *)
(* which the code only tests for truthiness, <<>> also stands for          *)
(* null/undefined.                                                         *)
(***************************************************************************)
EXTENDS Integers, Sequences, FiniteSets, TLC

VARIABLES stage,             \* the route shown: Landing, Form, Results, Presentation
          navState,          \* location.state handed over by navigate()
          formData,          \* FormPage: useState(loadSavedFormData)
          termsAccepted,     \* FormPage: useState(loadSavedTerms)
          errors,            \* FormPage: field-error map
          isLoading,         \* FormPage: busy flag
          apiError,          \* FormPage: API error banner
          ls_formData,       \* localStorage raw2ready_formData
          ls_termsAccepted,  \* localStorage raw2ready_termsAccepted
          activeCard,        \* PresentationPage: the open generator modal
          pptFormData,       \* PresentationPage: slide count and duration inputs
          pptErrors,         \* PresentationPage: field errors of the deck form
          isPptLoading,      \* PresentationPage: busy flag of deck generation
          presentation,      \* PresentationPage: the deck held in memory
          currentSlide,      \* PresentationPage: index of the slide shown
          editPrompt,        \* PresentationPage: the edit instruction input
          isEditing,         \* PresentationPage: busy flag of deck edit
          isDownloading,     \* PresentationPage: busy flag of deck export
          pptError,          \* PresentationPage: error banner of the deck flow
          videoFormData,     \* PresentationPage: duration and prompt inputs
          videoErrors,       \* PresentationPage: field errors of the video form
          isVideoLoading,    \* PresentationPage: busy flag of video generation
          generatedVideo,    \* PresentationPage: the video held in memory
          videoError,        \* PresentationPage: error banner of the video flow
          ls_pptFormData,    \* localStorage raw2ready_pptFormData
          ls_presentation,   \* localStorage raw2ready_presentation
          ls_currentSlide,   \* localStorage raw2ready_currentSlide
          ls_videoFormData,  \* localStorage raw2ready_videoFormData
          ls_generatedVideo, \* localStorage raw2ready_generatedVideo
          inflight,          \* requests issued and not yet handled
          event              \* what the last step was: a settled request, a reload,
                             \* a slide navigation, or none of these

formVars == <<formData, termsAccepted, errors, isLoading, apiError>>
formStore == <<ls_formData, ls_termsAccepted>>
deckVars == <<pptFormData, pptErrors, isPptLoading, presentation, currentSlide,
              editPrompt, isEditing, isDownloading, pptError>>
videoVars == <<videoFormData, videoErrors, isVideoLoading, generatedVideo, videoError>>
presVars == <<activeCard, deckVars, videoVars>>
deckStore == <<ls_pptFormData, ls_presentation, ls_currentSlide>>
videoStore == <<ls_videoFormData, ls_generatedVideo>>
presStore == <<deckStore, videoStore>>
vars == <<stage, navState, formVars, formStore, presVars, presStore, inflight, event>>

(***************************************************************************)
(* Bounds of the model                                                     *)
(***************************************************************************)
MaxFiles == 1
MaxInFlight == 2

(***************************************************************************)
(* Text                                                                    *)
(***************************************************************************)
SP == " "

RECURSIVE trimStart(_)
trimStart(s) ==
  IF s = <<>> THEN s
  ELSE IF Head(s) = SP THEN trimStart(Tail(s)) ELSE s

RECURSIVE trimEnd(_)
trimEnd(s) ==
  IF s = <<>> THEN s
  ELSE IF s[Len(s)] = SP THEN trimEnd(SubSeq(s, 1, Len(s) - 1)) ELSE s

\* String.prototype.trim
trim(s) == trimEnd(trimStart(s))

\* JavaScript truthiness of a string (or null) value
Truthy(s) == s # <<>>

\* a || b on strings
OrElse(a, b) == IF Truthy(a) THEN a ELSE b

(***************************************************************************)
(* localStorage values: getItem gives null (absent) or the stored string;  *)
(* JSON.stringify / JSON.parse convert between values and stored strings.  *)
(***************************************************************************)
Absent == [kind |-> "absent"]
Corrupt == [kind |-> "text", text |-> "{not json"]

JSONstringify(v) == [kind |-> "json", value |-> v]

JSONparses(s) == s.kind = "json"

JSONparse(s) == s.value

\* Boolean.prototype.toString
toString(b) == IF b THEN "true" ELSE "false"

(***************************************************************************)
(* The form                                                                *)
(***************************************************************************)
\* the imported known-country list
countries == {<<"France">>, <<"India">>}

PersistedFields == {"businessName", "city", "country", "rawIdea", "model", "timeCommitment"}

DefaultFormData ==
  [businessName |-> <<>>, city |-> <<>>, country |-> <<>>, rawIdea |-> <<>>,
   model |-> <<"chatgpt-latest">>, timeCommitment |-> <<>>, fileAttachments |-> <<>>]

\* the snapshot written to localStorage: the form values without the files
dataToSave(fd) == [f \in PersistedFields |-> fd[f]]

withFiles(saved, files) ==
  [f \in PersistedFields \cup {"fileAttachments"} |->
     IF f = "fileAttachments" THEN files ELSE saved[f]]

loadSavedFormData(saved) ==
  IF saved # Absent /\ JSONparses(saved)
  THEN withFiles(JSONparse(saved), <<>>)
  ELSE DefaultFormData

loadSavedTerms(saved) == saved = "true"

ErrKeys == {"country", "city", "rawIdea", "timeCommitment", "terms"}

\* the empty error map; <<>> stands for a missing (or emptied) entry
NoErrors == [k \in ErrKeys |-> <<>>]

\* {...prev, [name]: ''} when errors[name] is set
clearError(errs, name) ==
  IF name \in ErrKeys /\ Truthy(errs[name])
  THEN [errs EXCEPT ![name] = <<>>]
  ELSE errs

\* validateForm without the city rule
validateFormNoCity(fd, terms) ==
  [k \in ErrKeys |->
     CASE k = "country" ->
            IF ~Truthy(trim(fd.country)) THEN <<"Country is required">>
            ELSE IF fd.country \notin countries
                 THEN <<"Please select a country from the dropdown">>
                 ELSE <<>>
       [] k = "rawIdea" ->
            IF ~Truthy(trim(fd.rawIdea)) THEN <<"Raw idea is required">> ELSE <<>>
       [] k = "timeCommitment" ->
            IF ~Truthy(fd.timeCommitment) THEN <<"Time commitment is required">> ELSE <<>>
       [] k = "terms" ->
            IF ~terms THEN <<"You must accept the terms and conditions">> ELSE <<>>
       [] OTHER -> <<>>]

\* validateForm without the membership test on the country
validateFormAnyCountry(fd, terms) ==
  [k \in ErrKeys |->
     CASE k = "country" ->
            IF ~Truthy(trim(fd.country)) THEN <<"Country is required">> ELSE <<>>
       [] k = "city" ->
            IF ~Truthy(trim(fd.city)) THEN <<"City is required">> ELSE <<>>
       [] k = "rawIdea" ->
            IF ~Truthy(trim(fd.rawIdea)) THEN <<"Raw idea is required">> ELSE <<>>
       [] k = "timeCommitment" ->
            IF ~Truthy(fd.timeCommitment) THEN <<"Time commitment is required">> ELSE <<>>
       [] k = "terms" ->
            IF ~terms THEN <<"You must accept the terms and conditions">> ELSE <<>>]

validateForm(fd, terms) ==
  [k \in ErrKeys |->
     CASE k = "country" ->
            IF ~Truthy(trim(fd.country)) THEN <<"Country is required">>
            ELSE IF fd.country \notin countries
                 THEN <<"Please select a country from the dropdown">>
                 ELSE <<>>
       [] k = "city" ->
            IF ~Truthy(trim(fd.city)) THEN <<"City is required">> ELSE <<>>
       [] k = "rawIdea" ->
            IF ~Truthy(trim(fd.rawIdea)) THEN <<"Raw idea is required">> ELSE <<>>
       [] k = "timeCommitment" ->
            IF ~Truthy(fd.timeCommitment) THEN <<"Time commitment is required">> ELSE <<>>
       [] k = "terms" ->
            IF ~terms THEN <<"You must accept the terms and conditions">> ELSE <<>>]

\* Object.keys(newErrors).length === 0
noKeys(newErrors) == \A k \in ErrKeys : newErrors[k] = <<>>

getModelSelection(fd) ==
  IF fd.model = <<"gemini">> THEN <<"google-gemini-flash">> ELSE <<"chatgpt-latest">>

(***************************************************************************)
(* Requests.  fetch() is asynchronous: the handler issues the request and  *)
(* returns; the network later settles it (a response, or a rejection when  *)
(* no response is obtained) and the handler's continuation runs.  live     *)
(* says whether the component that issued the request is still mounted:    *)
(* state setters of an unmounted component do nothing.  event records the  *)
(* outcome a step handled (or that the step was a page reload), and is     *)
(* NoEvent after every other step.                                         *)
(***************************************************************************)
analyzeRequest(fd) ==
  [kind |-> "analyze", live |-> TRUE,
   business_name |-> OrElse(trim(fd.businessName), <<"My Business">>),
   typedName |-> trim(fd.businessName),
   model_selection |-> getModelSelection(fd)]

\* fetch rejects with a TypeError when no response is obtained
TransportFailures ==
  {[type |-> "transport", name |-> "TypeError", message |-> m] :
     m \in {<<"Failed to fetch">>, <<"Load failed">>}}

NoDetail == [kind |-> "none"]
StringDetail(t) == [kind |-> "string", text |-> t]
ListDetail(items) == [kind |-> "list", items |-> items]
\* a response whose JSON body is null
NullBody == [kind |-> "null"]

ErrorDetails ==
  {NoDetail, StringDetail(<<"rate limited">>),
   ListDetail(<<[msg |-> <<"field required">>]>>), NullBody}

ErrorStatuses == {"500"}

ErrorResponses ==
  {[type |-> "http", ok |-> FALSE, status |-> st, detail |-> d] :
     st \in ErrorStatuses, d \in ErrorDetails}

AnalysisResponses ==
  {[type |-> "http", ok |-> TRUE, status |-> "200",
    body |-> [id |-> "analysis", suggested_business_name |-> n]] :
     n \in {<<>>, <<SP>>, <<"Acme AI">>}}

RemoveAt(seq, i) == SubSeq(seq, 1, i - 1) \o SubSeq(seq, i + 1, Len(seq))

\* the component that issued the requests is unmounted
orphaned(reqs) == [i \in DOMAIN reqs |-> [reqs[i] EXCEPT !.live = FALSE]]

RECURSIVE joinWith(_, _)
\* Array.prototype.join
joinWith(items, sep) ==
  IF items = <<>> THEN <<>>
  ELSE IF Len(items) = 1 THEN items[1]
  ELSE items[1] \o sep \o joinWith(Tail(items), sep)

\* new Error(detail).message: the detail converted to a string
errorMessageOf(detail) ==
  CASE detail.kind = "string" -> detail.text
    [] detail.kind = "list" ->
         joinWith([i \in DOMAIN detail.items |-> <<"[object Object]">>], <<",">>)
    [] OTHER -> <<>>

\* errData.detail is truthy (an array is, an absent or empty detail is not)
detailTruthy(detail) ==
  CASE detail.kind = "string" -> Truthy(detail.text)
    [] detail.kind = "list" -> TRUE
    [] OTHER -> FALSE

FormUnreachable ==
  <<"Could not reach the server. Make sure the backend is running (e.g. uvicorn on port 8000) and you are using the dev server (npm run dev).">>

researchFailed(status) == <<"Research failed (", status, ")">>

\* reading errData.detail of a null body
NullDetailError ==
  [name |-> "TypeError",
   message |-> <<"Cannot read properties of null (reading 'detail')">>]

\* the error thrown inside handleSubmit's try block for a settled request
analyzeThrown(outcome) ==
  IF outcome.type = "transport"
  THEN [name |-> outcome.name, message |-> outcome.message]
  ELSE IF outcome.detail.kind = "null" THEN NullDetailError
  ELSE [name |-> "Error",
        message |-> IF detailTruthy(outcome.detail)
                    THEN errorMessageOf(outcome.detail)
                    ELSE researchFailed(outcome.status)]

isNetworkError(err) == err.message = <<"Failed to fetch">> \/ err.name = "TypeError"

\* handleSubmit's catch block: the banner text for a thrown error
submitCatchMessage(err) ==
  IF isNetworkError(err)
  THEN FormUnreachable
  ELSE OrElse(err.message, <<"Research failed. Please try again.">>)

\* businessContext that takes the typed name only
businessContextOfTyped(req, analysisData) ==
  [business_name |-> OrElse(req.typedName, <<"My Business">>),
   aiFields |-> "none"]

\* handleSubmit's businessContext; the AI fields are added by ResultsPage
businessContextOf(req, analysisData) ==
  [business_name |->
     OrElse(trim(analysisData.suggested_business_name),
            OrElse(req.typedName, <<"My Business">>)),
   aiFields |-> "none"]

(***************************************************************************)
(* Numbers typed into inputs and stored as text.  A number is num/den with *)
(* den a power of ten, or NaN; a decimal literal may carry an exponent     *)
(* (1e1 is 10); the inputs of the model carry no sign, no negative         *)
(* exponent and no radix prefix.                                           *)
(***************************************************************************)
Digits == {"0", "1", "2", "3", "4", "5", "6", "7", "8", "9"}

digitVal(c) ==
  CASE c = "0" -> 0 [] c = "1" -> 1 [] c = "2" -> 2 [] c = "3" -> 3 [] c = "4" -> 4
    [] c = "5" -> 5 [] c = "6" -> 6 [] c = "7" -> 7 [] c = "8" -> 8 [] c = "9" -> 9

digitOf(n) ==
  CASE n = 0 -> "0" [] n = 1 -> "1" [] n = 2 -> "2" [] n = 3 -> "3" [] n = 4 -> "4"
    [] n = 5 -> "5" [] n = 6 -> "6" [] n = 7 -> "7" [] n = 8 -> "8" [] n = 9 -> "9"

RECURSIVE digitsPrefix(_)
digitsPrefix(s) ==
  IF s = <<>> \/ Head(s) \notin Digits THEN <<>>
  ELSE <<Head(s)>> \o digitsPrefix(Tail(s))

RECURSIVE natOf(_)
natOf(ds) ==
  IF ds = <<>> THEN 0
  ELSE natOf(SubSeq(ds, 1, Len(ds) - 1)) * 10 + digitVal(ds[Len(ds)])

RECURSIVE pow10(_)
pow10(k) == IF k = 0 THEN 1 ELSE 10 * pow10(k - 1)

NaN == [nan |-> TRUE, num |-> 0, den |-> 1]
Num(n, d) == [nan |-> FALSE, num |-> n, den |-> d]

\* parseInt(s, 10)
parseInt(s) ==
  LET p == digitsPrefix(trimStart(s))
  IN IF p = <<>> THEN NaN ELSE Num(natOf(p), 1)

\* the digits after a decimal point at the head of rest
fractionOf(rest) ==
  IF rest # <<>> /\ Head(rest) = "." THEN digitsPrefix(Tail(rest)) ELSE <<>>

\* the digits of an exponent part at the head of rest
exponentOf(rest) ==
  IF rest # <<>> /\ Head(rest) \in {"e", "E"} THEN digitsPrefix(Tail(rest)) ELSE <<>>

\* the longest prefix of t that is a decimal literal: its value and its length
decimalPrefix(t) ==
  LET ip == digitsPrefix(t)
      afterInt == SubSeq(t, Len(ip) + 1, Len(t))
      fp == fractionOf(afterInt)
      dot == IF afterInt # <<>> /\ Head(afterInt) = "." /\ (ip # <<>> \/ fp # <<>>)
             THEN 1 + Len(fp) ELSE 0
      afterFrac == SubSeq(afterInt, dot + 1, Len(afterInt))
      ex == exponentOf(afterFrac)
      exUsed == IF ex # <<>> THEN 1 + Len(ex) ELSE 0
  IN IF ip = <<>> /\ fp = <<>>
     THEN [value |-> NaN, used |-> 0]
     ELSE [value |-> Num((natOf(ip) * pow10(Len(fp)) + natOf(fp)) * pow10(natOf(ex)),
                         pow10(Len(fp))),
           used |-> Len(ip) + dot + exUsed]

parseFloat(s) == decimalPrefix(trimStart(s)).value

\* Number(s): the whole trimmed text must be a decimal literal; "" is 0
Number(s) ==
  LET t == trim(s)
      p == decimalPrefix(t)
  IN IF t = <<>> THEN Num(0, 1)
     ELSE IF p.used = Len(t) THEN p.value
     ELSE NaN

\* isNaN(s) on a string
isNaN(s) == Number(s).nan

\* x < n and x > n for a number x and an integer n; false for NaN
lessThan(x, n) == ~x.nan /\ x.num < n * x.den
greaterThan(x, n) == ~x.nan /\ x.num > n * x.den

RECURSIVE intToString(_)
\* Number.prototype.toString of a non-negative integer
intToString(n) ==
  IF n < 10 THEN <<digitOf(n)>> ELSE intToString(n \div 10) \o <<digitOf(n % 10)>>

(***************************************************************************)
(* The Presentation/Video stage                                            *)
(***************************************************************************)
StoredText(t) == [kind |-> "text", text |-> t]

NoDeck == [kind |-> "null"]
NoVideo == [kind |-> "null"]

DefaultPptData == [numberOfSlides |-> <<"1", "0">>, timeRequired |-> <<"5">>]
DefaultVideoData == [timeRequired |-> <<>>, prompt |-> <<>>]

loadSavedPptData(saved) ==
  IF saved # Absent /\ JSONparses(saved) THEN JSONparse(saved) ELSE DefaultPptData

loadSavedPresentation(saved) ==
  IF saved # Absent /\ JSONparses(saved) THEN JSONparse(saved) ELSE NoDeck

loadSavedVideoData(saved) ==
  IF saved # Absent /\ JSONparses(saved) THEN JSONparse(saved) ELSE DefaultVideoData

loadSavedVideo(saved) ==
  IF saved # Absent /\ JSONparses(saved) THEN JSONparse(saved) ELSE NoVideo

\* currentSlide's initial value: saved ? parseInt(saved, 10) : 0.  The store only
\* ever holds what intToString wrote, so the NaN branch (-1 here) is not taken.
loadCurrentSlide(saved) ==
  IF saved # Absent /\ Truthy(saved.text)
  THEN (IF parseInt(saved.text).nan THEN -1 ELSE parseInt(saved.text).num)
  ELSE 0

PptKeys == {"numberOfSlides", "timeRequired"}
VideoKeys == {"timeRequired", "prompt"}
NoPptErrors == [k \in PptKeys |-> <<>>]
NoVideoErrors == [k \in VideoKeys |-> <<>>]

clearIn(errs, keys, name) ==
  IF name \in keys /\ Truthy(errs[name]) THEN [errs EXCEPT ![name] = <<>>] ELSE errs

validatePptForm(fd) ==
  [k \in PptKeys |->
     CASE k = "numberOfSlides" ->
            IF \/ ~Truthy(trim(fd.numberOfSlides))
               \/ isNaN(fd.numberOfSlides)
               \/ lessThan(parseInt(fd.numberOfSlides), 5)
               \/ greaterThan(parseInt(fd.numberOfSlides), 15)
            THEN <<"Please enter a number between 5 and 15">>
            ELSE <<>>
       [] k = "timeRequired" ->
            IF \/ ~Truthy(trim(fd.timeRequired))
               \/ isNaN(fd.timeRequired)
               \/ lessThan(parseFloat(fd.timeRequired), 3)
               \/ greaterThan(parseFloat(fd.timeRequired), 15)
            THEN <<"Please enter a time between 3 and 15 minutes">>
            ELSE <<>>]

\* validateVideoForm with the range of the deck form's duration
validateVideoFormDeckRange(fd) ==
  [k \in VideoKeys |->
     CASE k = "timeRequired" ->
            IF ~Truthy(trim(fd.timeRequired))
            THEN <<"Time required is mandatory">>
            ELSE IF \/ isNaN(fd.timeRequired)
                    \/ lessThan(parseFloat(fd.timeRequired), 3)
                    \/ greaterThan(parseFloat(fd.timeRequired), 15)
                 THEN <<"Please enter a valid time in seconds (6-10)">>
                 ELSE <<>>
       [] k = "prompt" ->
            IF ~Truthy(trim(fd.prompt)) THEN <<"Video prompt is required">> ELSE <<>>]

validateVideoForm(fd) ==
  [k \in VideoKeys |->
     CASE k = "timeRequired" ->
            IF ~Truthy(trim(fd.timeRequired))
            THEN <<"Time required is mandatory">>
            ELSE IF \/ isNaN(fd.timeRequired)
                    \/ lessThan(parseFloat(fd.timeRequired), 6)
                    \/ greaterThan(parseFloat(fd.timeRequired), 10)
                 THEN <<"Please enter a valid time in seconds (6-10)">>
                 ELSE <<>>
       [] k = "prompt" ->
            IF ~Truthy(trim(fd.prompt)) THEN <<"Video prompt is required">> ELSE <<>>]

noPptKeys(newErrors) == \A k \in PptKeys : newErrors[k] = <<>>
noVideoKeys(newErrors) == \A k \in VideoKeys : newErrors[k] = <<>>

\* the main render logic shows the viewer: presentation && presentation.slides
viewerShown == stage = "Presentation" /\ presentation # NoDeck

\* renderPresentationViewer renders the deck (it returns null for no slides)
deckDisplayed == viewerShown /\ Len(presentation.slides) > 0

\* presentation.slides[currentSlide] is undefined and slide.slide_number throws
\* while rendering: React unmounts the application until the page is reloaded
renderThrows ==
  deckDisplayed /\ currentSlide \notin 0..(Len(presentation.slides) - 1)

\* the generator selection with its two cards is rendered and can be clicked
cardsShown == stage = "Presentation" /\ presentation = NoDeck /\ activeCard = "none"

generateRequest(fd) ==
  [kind |-> "generate", live |-> TRUE,
   num_slides |-> parseInt(fd.numberOfSlides),
   duration_minutes |-> parseInt(fd.timeRequired)]

editRequest(deck, prompt) ==
  [kind |-> "edit", live |-> TRUE,
   current_presentation |-> deck.slides, edit_request |-> prompt]

videoRequest(fd) ==
  [kind |-> "video", live |-> TRUE,
   time |-> [parseFloat(fd.timeRequired) EXCEPT !.den = @ * 60],
   prompt |-> trim(fd.prompt)]

\* a non-success response whose body is not JSON
NonJsonDetail == [kind |-> "notjson"]

PptUnreachable ==
  <<"Could not reach the server. Make sure the backend is running (port 8000) and you are using the dev server (npm run dev).">>

EditUnreachable ==
  <<"Could not reach the server. Make sure the backend is running (port 8000).">>

\* the error thrown inside the try block of a deck or video handler: the body
\* of a non-success response is parsed without a fallback
deckThrown(outcome, fallback) ==
  IF outcome.type = "transport"
  THEN [name |-> outcome.name, message |-> outcome.message]
  ELSE IF outcome.detail.kind = "notjson"
       THEN [name |-> "SyntaxError", message |-> <<"Unexpected token < in JSON at position 0">>]
       ELSE IF outcome.detail.kind = "null" THEN NullDetailError
       ELSE [name |-> "Error",
             message |-> IF detailTruthy(outcome.detail)
                         THEN errorMessageOf(outcome.detail)
                         ELSE fallback]

\* the catch block of a deck or video handler
deckCatchMessage(err, unreachable) ==
  IF isNetworkError(err) THEN unreachable ELSE err.message

(***************************************************************************)
(* Mounting and unmounting of the stages' components                       *)
(***************************************************************************)
Undefined == [undefined |-> TRUE]

\* location.state is null: location.state?.x is undefined
NoNavState == [analysisData |-> Undefined, businessContext |-> Undefined]

FormUnmounted ==
  /\ formData' = DefaultFormData
  /\ termsAccepted' = FALSE
  /\ errors' = NoErrors
  /\ isLoading' = FALSE
  /\ apiError' = <<>>

\* FormPage's initial state
FormMounted ==
  /\ formData' = loadSavedFormData(ls_formData)
  /\ termsAccepted' = loadSavedTerms(ls_termsAccepted)
  /\ errors' = NoErrors
  /\ isLoading' = FALSE
  /\ apiError' = <<>>

PresUnmounted ==
  /\ activeCard' = "none"
  /\ pptFormData' = DefaultPptData
  /\ pptErrors' = NoPptErrors
  /\ isPptLoading' = FALSE
  /\ presentation' = NoDeck
  /\ currentSlide' = 0
  /\ editPrompt' = <<>>
  /\ isEditing' = FALSE
  /\ isDownloading' = FALSE
  /\ pptError' = <<>>
  /\ videoFormData' = DefaultVideoData
  /\ videoErrors' = NoVideoErrors
  /\ isVideoLoading' = FALSE
  /\ generatedVideo' = NoVideo
  /\ videoError' = <<>>

\* PresentationPage's initial state
PresMounted ==
  /\ activeCard' = "none"
  /\ pptFormData' = loadSavedPptData(ls_pptFormData)
  /\ pptErrors' = NoPptErrors
  /\ isPptLoading' = FALSE
  /\ presentation' = loadSavedPresentation(ls_presentation)
  /\ currentSlide' = loadCurrentSlide(ls_currentSlide)
  /\ editPrompt' = <<>>
  /\ isEditing' = FALSE
  /\ isDownloading' = FALSE
  /\ pptError' = <<>>
  /\ videoFormData' = loadSavedVideoData(ls_videoFormData)
  /\ videoErrors' = NoVideoErrors
  /\ isVideoLoading' = FALSE
  /\ generatedVideo' = loadSavedVideo(ls_generatedVideo)
  /\ videoError' = <<>>

NoEvent == [kind |-> "none"]

(***************************************************************************)
(* Landing stage                                                           *)
(***************************************************************************)
handleStart ==
  /\ stage = "Landing"
  /\ stage' = "Form"
  /\ FormMounted
  /\ event' = NoEvent
  /\ UNCHANGED <<navState, ls_formData, ls_termsAccepted, inflight>>
  /\ UNCHANGED <<presVars, presStore>>

(***************************************************************************)
(* Form stage                                                              *)
(***************************************************************************)
\* handleChange that does not write the snapshot
handleChangeUnsaved(name, value) ==
  /\ stage = "Form"
  /\ formData' = [formData EXCEPT ![name] = value]
  /\ errors' = clearError(errors, name)
  /\ event' = NoEvent
  /\ UNCHANGED <<stage, navState, termsAccepted, isLoading, apiError,
                 ls_formData, ls_termsAccepted, inflight>>
  /\ UNCHANGED <<presVars, presStore>>

handleChange(name, value) ==
  /\ stage = "Form"
  /\ LET updated == [formData EXCEPT ![name] = value]
     IN /\ formData' = updated
        /\ ls_formData' = JSONstringify(dataToSave(updated))
  /\ errors' = clearError(errors, name)
  /\ event' = NoEvent
  /\ UNCHANGED <<stage, navState, termsAccepted, isLoading, apiError,
                 ls_termsAccepted, inflight>>
  /\ UNCHANGED <<presVars, presStore>>

\* the DOMException of a localStorage.setItem that exceeds the quota
QuotaExceededError ==
  [name |-> "QuotaExceededError",
   message |-> <<"Failed to execute 'setItem' on 'Storage': the quota has been exceeded.">>]

\* handleChange when setItem throws: the write is inside the state updater,
\* which React runs while rendering FormPage; no error boundary exists, so the
\* root is unmounted and the page stays blank (stage FormBlank: the route is
\* still /form) until it is reloaded
handleChangeQuota(name, value) ==
  /\ stage = "Form"
  /\ stage' = "FormBlank"
  /\ FormUnmounted
  /\ inflight' = orphaned(inflight)
  /\ event' = [kind |-> "writeFailed", op |-> "handleChange", live |-> TRUE, unhandled |-> TRUE]
  /\ UNCHANGED <<navState, ls_formData, ls_termsAccepted>>
  /\ UNCHANGED <<presVars, presStore>>

\* handleChange for the file input (the form variant with attachments)
handleFileChange(files) ==
  /\ stage = "Form"
  /\ Len(formData.fileAttachments) + Len(files) <= MaxFiles
  /\ LET updated == [formData EXCEPT !.fileAttachments = @ \o files]
     IN /\ formData' = updated
        /\ ls_formData' = JSONstringify(dataToSave(updated))
  /\ event' = NoEvent
  /\ UNCHANGED <<stage, navState, termsAccepted, errors, isLoading, apiError,
                 ls_termsAccepted, inflight>>
  /\ UNCHANGED <<presVars, presStore>>

handleRemoveFile(index) ==
  /\ stage = "Form"
  /\ index \in DOMAIN formData.fileAttachments
  /\ formData' = [formData EXCEPT !.fileAttachments = RemoveAt(@, index)]
  /\ event' = NoEvent
  /\ UNCHANGED <<stage, navState, termsAccepted, errors, isLoading, apiError,
                 ls_formData, ls_termsAccepted, inflight>>
  /\ UNCHANGED <<presVars, presStore>>

\* the terms checkbox's onChange
termsChange(value) ==
  /\ stage = "Form"
  /\ termsAccepted' = value
  /\ ls_termsAccepted' = toString(value)
  /\ errors' = clearError(errors, "terms")
  /\ event' = NoEvent
  /\ UNCHANGED <<stage, navState, formData, isLoading, apiError, ls_formData, inflight>>
  /\ UNCHANGED <<presVars, presStore>>

\* handleSubmit that raises the busy flag and clears the banner before validating
handleSubmitBusyFirst ==
  /\ stage = "Form"
  /\ ~isLoading
  /\ LET newErrors == validateForm(formData, termsAccepted)
     IN /\ errors' = newErrors
        /\ apiError' = <<>>
        /\ IF ~noKeys(newErrors)
           THEN UNCHANGED <<isLoading, inflight>>
           ELSE /\ Len(inflight) < MaxInFlight
                /\ isLoading' = TRUE
                /\ inflight' = Append(inflight, analyzeRequest(formData))
  /\ event' = NoEvent
  /\ UNCHANGED <<stage, navState, formData, termsAccepted, ls_formData, ls_termsAccepted>>
  /\ UNCHANGED <<presVars, presStore>>

\* handleSubmit up to its await; the submit button is disabled while isLoading
handleSubmit ==
  /\ stage = "Form"
  /\ ~isLoading
  /\ LET newErrors == validateForm(formData, termsAccepted)
     IN /\ errors' = newErrors
        /\ IF ~noKeys(newErrors)
           THEN UNCHANGED <<isLoading, apiError, inflight>>
           ELSE /\ Len(inflight) < MaxInFlight
                /\ isLoading' = TRUE
                /\ apiError' = <<>>
                /\ inflight' = Append(inflight, analyzeRequest(formData))
  /\ event' = NoEvent
  /\ UNCHANGED <<stage, navState, formData, termsAccepted, ls_formData, ls_termsAccepted>>
  /\ UNCHANGED <<presVars, presStore>>

\* handleSubmit from its await on: request i is settled with outcome
analyzeSettled(i, outcome) ==
  /\ i \in DOMAIN inflight
  /\ inflight[i].kind = "analyze"
  /\ LET req == inflight[i]
         rest == RemoveAt(inflight, i)
     IN /\ event' = [kind |-> "analyze", live |-> req.live, outcome |-> outcome]
        /\ IF outcome.type = "http" /\ outcome.ok
           THEN /\ stage' = "Results"
                /\ navState' = [analysisData |-> outcome.body,
                                businessContext |-> businessContextOf(req, outcome.body)]
                /\ FormUnmounted
                /\ PresUnmounted
                /\ inflight' = orphaned(rest)
           ELSE /\ inflight' = rest
                /\ IF req.live
                   THEN /\ apiError' = submitCatchMessage(analyzeThrown(outcome))
                        /\ isLoading' = FALSE
                   ELSE UNCHANGED <<apiError, isLoading>>
                /\ UNCHANGED <<stage, navState, formData, termsAccepted, errors, presVars>>
  /\ UNCHANGED <<ls_formData, ls_termsAccepted>>
  /\ UNCHANGED presStore

\* FormPage's handleBack
handleBackToLanding ==
  /\ stage = "Form"
  /\ stage' = "Landing"
  /\ FormUnmounted
  /\ inflight' = orphaned(inflight)
  /\ event' = NoEvent
  /\ UNCHANGED <<navState, ls_formData, ls_termsAccepted>>
  /\ UNCHANGED <<presVars, presStore>>

\* the page is reloaded: pending requests die with the page, the stage's
\* component is constructed again
reload ==
  /\ inflight' = <<>>
  /\ stage' = IF stage = "FormBlank" THEN "Form" ELSE stage
  /\ IF stage' = "Form" THEN FormMounted ELSE UNCHANGED formVars
  /\ IF stage = "Presentation" THEN PresMounted ELSE UNCHANGED presVars
  /\ event' = [kind |-> "reload"]
  /\ UNCHANGED <<navState, formStore, presStore>>

(***************************************************************************)
(* Results stage                                                           *)
(***************************************************************************)
\* businessContext of ResultsPage: location.state?.businessContext || {...}
resultsContext ==
  IF navState.businessContext # Undefined
  THEN navState.businessContext
  ELSE [business_name |-> <<"My Business">>, aiFields |-> "none"]

\* data of ResultsPage: the analysis handed over, or the sample output
resultsData ==
  IF navState.analysisData # Undefined THEN navState.analysisData.id ELSE "sample"

\* the disclaimer banner of ResultsPage: data.disclaimer && <banner>, for an
\* analysis handed over by the form
disclaimerBanner ==
  IF stage = "Results" /\ navState.analysisData # Undefined
                       /\ Truthy(navState.analysisData.disclaimer)
  THEN navState.analysisData.disclaimer
  ELSE <<>>

\* the Create Presentation button
createPresentation ==
  /\ stage = "Results"
  /\ stage' = "Presentation"
  /\ navState' = [analysisData |-> Undefined,
                  businessContext |-> [resultsContext EXCEPT !.aiFields = resultsData]]
  /\ PresMounted
  /\ event' = NoEvent
  /\ UNCHANGED <<formVars, formStore, presStore, inflight>>

(***************************************************************************)
(* Presentation/Video stage.  After renderThrows nothing is rendered, so   *)
(* no control can be used and no state setter has an effect.               *)
(***************************************************************************)
presUsable == stage = "Presentation" /\ ~renderThrows

pptModalShown == presUsable /\ presentation = NoDeck /\ activeCard = "ppt"
videoModalShown == presUsable /\ presentation = NoDeck /\ activeCard = "video"
viewerUsable == presUsable /\ deckDisplayed

\* businessContext of PresentationPage: location.state?.businessContext || {}
presContext ==
  IF navState.businessContext # Undefined
  THEN navState.businessContext
  ELSE [business_name |-> <<>>, aiFields |-> "none"]

\* PresentationPage's handleBack, on the generator selection
handleBack ==
  /\ cardsShown
  /\ stage' = "Results"
  /\ navState' = [analysisData |-> navState.analysisData,
                  businessContext |-> presContext]
  /\ PresUnmounted
  /\ inflight' = orphaned(inflight)
  /\ event' = NoEvent
  /\ UNCHANGED <<formVars, formStore, presStore>>

openCard(cardType) ==
  /\ cardsShown
  /\ IF cardType = "ppt"
     THEN /\ pptFormData' = IF ls_pptFormData # Absent /\ JSONparses(ls_pptFormData)
                            THEN JSONparse(ls_pptFormData)
                            ELSE pptFormData
          /\ UNCHANGED <<videoFormData, generatedVideo>>
     ELSE /\ videoFormData' = IF ls_videoFormData # Absent /\ JSONparses(ls_videoFormData)
                              THEN JSONparse(ls_videoFormData)
                              ELSE videoFormData
          /\ generatedVideo' =
               IF /\ ls_videoFormData # Absent => JSONparses(ls_videoFormData)
                  /\ ls_generatedVideo # Absent /\ JSONparses(ls_generatedVideo)
               THEN JSONparse(ls_generatedVideo)
               ELSE generatedVideo
          /\ UNCHANGED pptFormData
  /\ activeCard' = cardType
  /\ pptError' = <<>>
  /\ videoError' = <<>>
  /\ event' = NoEvent
  /\ UNCHANGED <<stage, navState, formVars, formStore, presStore, inflight,
                 pptErrors, isPptLoading, presentation, currentSlide, editPrompt,
                 isEditing, isDownloading, videoErrors, isVideoLoading>>

closeCard ==
  /\ presUsable /\ presentation = NoDeck /\ activeCard # "none"
  /\ activeCard' = "none"
  /\ pptError' = <<>>
  /\ videoError' = <<>>
  /\ event' = NoEvent
  /\ UNCHANGED <<stage, navState, formVars, formStore, presStore, inflight,
                 pptFormData, pptErrors, isPptLoading, presentation, currentSlide,
                 editPrompt, isEditing, isDownloading, videoFormData, videoErrors, isVideoLoading,
                 generatedVideo>>

handlePptChange(name, value) ==
  /\ pptModalShown
  /\ LET updated == [pptFormData EXCEPT ![name] = value]
     IN /\ pptFormData' = updated
        /\ ls_pptFormData' = JSONstringify(updated)
  /\ pptErrors' = clearIn(pptErrors, PptKeys, name)
  /\ event' = NoEvent
  /\ UNCHANGED <<stage, navState, formVars, formStore, inflight, activeCard,
                 isPptLoading, presentation, currentSlide, editPrompt, isEditing, isDownloading,
                 pptError, videoVars, ls_presentation, ls_currentSlide, videoStore>>

\* handleCreatePresentation up to its await; the button is disabled while isPptLoading
handleCreatePresentation ==
  /\ pptModalShown
  /\ ~isPptLoading
  /\ LET newErrors == validatePptForm(pptFormData)
     IN /\ pptErrors' = newErrors
        /\ IF ~noPptKeys(newErrors)
           THEN UNCHANGED <<isPptLoading, pptError, inflight>>
           ELSE /\ Len(inflight) < MaxInFlight
                /\ isPptLoading' = TRUE
                /\ pptError' = <<>>
                /\ inflight' = Append(inflight, generateRequest(pptFormData))
  /\ event' = NoEvent
  /\ UNCHANGED <<stage, navState, formVars, formStore, presStore, activeCard,
                 pptFormData, presentation, currentSlide, editPrompt, isEditing, isDownloading,
                 videoVars>>

\* handleCreatePresentation from its await on
generateSettled(i, outcome) ==
  /\ i \in DOMAIN inflight
  /\ inflight[i].kind = "generate"
  /\ LET req == inflight[i]
         mounted == req.live /\ ~renderThrows
     IN /\ event' = [kind |-> "generate", live |-> mounted, outcome |-> outcome]
        /\ inflight' = RemoveAt(inflight, i)
        /\ IF outcome.type = "http" /\ outcome.ok
           THEN /\ ls_presentation' = JSONstringify(outcome.body)
                /\ ls_currentSlide' = StoredText(<<"0">>)
                /\ IF mounted
                   THEN /\ presentation' = outcome.body
                        /\ currentSlide' = 0
                        /\ isPptLoading' = FALSE
                   ELSE UNCHANGED <<presentation, currentSlide, isPptLoading>>
                /\ UNCHANGED pptError
           ELSE /\ IF mounted
                   THEN /\ pptError' = deckCatchMessage(
                                         deckThrown(outcome, <<"Failed to generate presentation">>),
                                         PptUnreachable)
                        /\ isPptLoading' = FALSE
                   ELSE UNCHANGED <<pptError, isPptLoading>>
                /\ UNCHANGED <<presentation, currentSlide, ls_presentation, ls_currentSlide>>
  /\ UNCHANGED <<stage, navState, formVars, formStore, activeCard, pptFormData,
                 pptErrors, editPrompt, isEditing, isDownloading, videoVars, ls_pptFormData, videoStore>>

\* the edit instruction textarea's onChange
editPromptChange(value) ==
  /\ viewerUsable
  /\ editPrompt' = value
  /\ event' = NoEvent
  /\ UNCHANGED <<stage, navState, formVars, formStore, presStore, inflight, activeCard,
                 pptFormData, pptErrors, isPptLoading, presentation, currentSlide,
                 isEditing, isDownloading, pptError, videoVars>>

\* handleEditPresentation up to its await; the button is disabled while isEditing
\* and while the instruction is blank
handleEditPresentation ==
  /\ viewerUsable
  /\ ~isEditing
  /\ IF ~Truthy(trim(editPrompt)) \/ presentation = NoDeck
     THEN UNCHANGED <<isEditing, pptError, inflight>>
     ELSE /\ Len(inflight) < MaxInFlight
          /\ isEditing' = TRUE
          /\ pptError' = <<>>
          /\ inflight' = Append(inflight, editRequest(presentation, editPrompt))
  /\ event' = NoEvent
  /\ UNCHANGED <<stage, navState, formVars, formStore, presStore, activeCard,
                 pptFormData, pptErrors, isPptLoading, presentation, currentSlide,
                 editPrompt, isDownloading, videoVars>>

\* handleEditPresentation from its await on
editSettled(i, outcome) ==
  /\ i \in DOMAIN inflight
  /\ inflight[i].kind = "edit"
  /\ LET req == inflight[i]
         mounted == req.live /\ ~renderThrows
     IN /\ event' = [kind |-> "edit", live |-> mounted, outcome |-> outcome]
        /\ inflight' = RemoveAt(inflight, i)
        /\ IF outcome.type = "http" /\ outcome.ok
           THEN /\ ls_presentation' = JSONstringify(outcome.body)
                /\ IF mounted
                   THEN /\ presentation' = outcome.body
                        /\ editPrompt' = <<>>
                        /\ isEditing' = FALSE
                   ELSE UNCHANGED <<presentation, editPrompt, isEditing>>
                /\ UNCHANGED pptError
           ELSE /\ IF mounted
                   THEN /\ pptError' = deckCatchMessage(
                                         deckThrown(outcome, <<"Failed to edit presentation">>),
                                         EditUnreachable)
                        /\ isEditing' = FALSE
                   ELSE UNCHANGED <<pptError, isEditing>>
                /\ UNCHANGED <<presentation, editPrompt, ls_presentation>>
  /\ UNCHANGED <<stage, navState, formVars, formStore, activeCard, pptFormData,
                 pptErrors, isPptLoading, currentSlide, isDownloading, videoVars, ls_pptFormData,
                 ls_currentSlide, videoStore>>

\* handleCreatePresentation from its await on when the first setItem throws:
\* the setters have run, the error is caught by the handler's catch block
generateSettledQuota(i, outcome) ==
  /\ i \in DOMAIN inflight
  /\ inflight[i].kind = "generate"
  /\ outcome.type = "http" /\ outcome.ok
  /\ LET req == inflight[i]
         mounted == req.live /\ ~renderThrows
     IN /\ event' = [kind |-> "writeFailed", op |-> "generate", live |-> mounted,
                     unhandled |-> FALSE]
        /\ inflight' = RemoveAt(inflight, i)
        /\ IF mounted
           THEN /\ presentation' = outcome.body
                /\ currentSlide' = 0
                /\ pptError' = deckCatchMessage(QuotaExceededError, PptUnreachable)
                /\ isPptLoading' = FALSE
           ELSE UNCHANGED <<presentation, currentSlide, pptError, isPptLoading>>
  /\ UNCHANGED <<stage, navState, formVars, formStore, activeCard, pptFormData,
                 pptErrors, editPrompt, isEditing, isDownloading, videoVars, presStore>>

\* handleEditPresentation from its await on when setItem throws
editSettledQuota(i, outcome) ==
  /\ i \in DOMAIN inflight
  /\ inflight[i].kind = "edit"
  /\ outcome.type = "http" /\ outcome.ok
  /\ LET req == inflight[i]
         mounted == req.live /\ ~renderThrows
     IN /\ event' = [kind |-> "writeFailed", op |-> "edit", live |-> mounted,
                     unhandled |-> FALSE]
        /\ inflight' = RemoveAt(inflight, i)
        /\ IF mounted
           THEN /\ presentation' = outcome.body
                /\ editPrompt' = <<>>
                /\ pptError' = deckCatchMessage(QuotaExceededError, EditUnreachable)
                /\ isEditing' = FALSE
           ELSE UNCHANGED <<presentation, editPrompt, pptError, isEditing>>
  /\ UNCHANGED <<stage, navState, formVars, formStore, activeCard, pptFormData,
                 pptErrors, isPptLoading, currentSlide, isDownloading, videoVars, presStore>>

exportRequest(deck, ctx) ==
  [kind |-> "export", live |-> TRUE, presentation |-> deck,
   business_name |-> ctx.business_name]

\* handleDownloadPptx without the guard on the slides
handleDownloadPptxUnguarded ==
  /\ presUsable
  /\ viewerShown
  /\ ~isDownloading
  /\ Len(inflight) < MaxInFlight
  /\ isDownloading' = TRUE
  /\ pptError' = <<>>
  /\ inflight' = Append(inflight, exportRequest(presentation, presContext))
  /\ event' = [kind |-> "exportClick"]
  /\ UNCHANGED <<stage, navState, formVars, formStore, presStore, activeCard,
                 pptFormData, pptErrors, isPptLoading, presentation, currentSlide,
                 editPrompt, isEditing, videoVars>>

\* handleDownloadPptx up to its await; the button is disabled while
\* isDownloading.  The handler's own guard covers a deck without slides, for
\* which the viewer renders nothing.
handleDownloadPptx ==
  /\ presUsable
  /\ viewerShown
  /\ ~isDownloading
  /\ IF Len(presentation.slides) = 0
     THEN UNCHANGED <<isDownloading, pptError, inflight>>
     ELSE /\ Len(inflight) < MaxInFlight
          /\ isDownloading' = TRUE
          /\ pptError' = <<>>
          /\ inflight' = Append(inflight, exportRequest(presentation, presContext))
  /\ event' = [kind |-> "exportClick"]
  /\ UNCHANGED <<stage, navState, formVars, formStore, presStore, activeCard,
                 pptFormData, pptErrors, isPptLoading, presentation, currentSlide,
                 editPrompt, isEditing, videoVars>>

\* handleDownloadPptx from its await on: a success saves the file the
\* response carries
exportSettled(i, outcome) ==
  /\ i \in DOMAIN inflight
  /\ inflight[i].kind = "export"
  /\ LET req == inflight[i]
         mounted == req.live /\ ~renderThrows
     IN /\ event' = [kind |-> "export", live |-> mounted, outcome |-> outcome]
        /\ inflight' = RemoveAt(inflight, i)
        /\ IF mounted
           THEN /\ isDownloading' = FALSE
                /\ pptError' = IF outcome.type = "http" /\ outcome.ok
                               THEN pptError
                               ELSE deckCatchMessage(
                                      deckThrown(outcome, <<"Failed to export PPTX">>),
                                      EditUnreachable)
           ELSE UNCHANGED <<isDownloading, pptError>>
  /\ UNCHANGED <<stage, navState, formVars, formStore, presStore, activeCard,
                 pptFormData, pptErrors, isPptLoading, presentation, currentSlide,
                 editPrompt, isEditing, videoVars>>

navFrame ==
  UNCHANGED <<stage, navState, formVars, formStore, inflight, activeCard, pptFormData,
              pptErrors, isPptLoading, presentation, editPrompt, isEditing, isDownloading, pptError,
              videoVars, ls_pptFormData, ls_presentation, videoStore>>

\* a slide indicator or thumbnail is clicked
goToSlide(index) ==
  /\ viewerUsable
  /\ index \in 0..(Len(presentation.slides) - 1)
  /\ currentSlide' = index
  /\ ls_currentSlide' = StoredText(intToString(index))
  /\ event' = [kind |-> "nav", op |-> "goto", index |-> index]
  /\ navFrame

\* goToSlide when setItem throws: the index is set, the exception leaves the
\* click handler uncaught
goToSlideQuota(index) ==
  /\ viewerUsable
  /\ index \in 0..(Len(presentation.slides) - 1)
  /\ currentSlide' = index
  /\ event' = [kind |-> "writeFailed", op |-> "goToSlide", live |-> TRUE, unhandled |-> TRUE]
  /\ UNCHANGED ls_currentSlide
  /\ navFrame

\* the handler also guards the end of the deck, where its button is disabled
nextSlide ==
  /\ viewerUsable
  /\ IF presentation # NoDeck /\ currentSlide < Len(presentation.slides) - 1
     THEN LET newSlide == currentSlide + 1
          IN /\ currentSlide' = newSlide
             /\ ls_currentSlide' = StoredText(intToString(newSlide))
     ELSE UNCHANGED <<currentSlide, ls_currentSlide>>
  /\ event' = [kind |-> "nav", op |-> "next", index |-> currentSlide]
  /\ navFrame

\* the handler also guards the first slide, where its button is disabled
prevSlide ==
  /\ viewerUsable
  /\ IF currentSlide > 0
     THEN LET newSlide == currentSlide - 1
          IN /\ currentSlide' = newSlide
             /\ ls_currentSlide' = StoredText(intToString(newSlide))
     ELSE UNCHANGED <<currentSlide, ls_currentSlide>>
  /\ event' = [kind |-> "nav", op |-> "prev", index |-> currentSlide]
  /\ navFrame

\* startOver that leaves the persisted deck and index in place
startOverUnsaved ==
  /\ viewerUsable
  /\ presentation' = NoDeck
  /\ currentSlide' = 0
  /\ UNCHANGED <<ls_presentation, ls_currentSlide>>
  /\ activeCard' = "ppt"
  /\ event' = [kind |-> "reset"]
  /\ UNCHANGED <<stage, navState, formVars, formStore, inflight, pptFormData, pptErrors,
                 isPptLoading, editPrompt, isEditing, isDownloading, pptError, videoVars,
                 ls_pptFormData, videoStore>>

\* the Start Over with New Settings button
startOver ==
  /\ viewerUsable
  /\ presentation' = NoDeck
  /\ currentSlide' = 0
  /\ ls_presentation' = Absent
  /\ ls_currentSlide' = Absent
  /\ activeCard' = "ppt"
  /\ event' = [kind |-> "reset"]
  /\ UNCHANGED <<stage, navState, formVars, formStore, inflight, pptFormData, pptErrors,
                 isPptLoading, editPrompt, isEditing, isDownloading, pptError, videoVars,
                 ls_pptFormData, videoStore>>

\* the viewer's Back to Presentation or Video button
handleBackToCardSelection ==
  /\ viewerUsable
  /\ presentation' = NoDeck
  /\ currentSlide' = 0
  /\ activeCard' = "none"
  /\ ls_presentation' = Absent
  /\ ls_currentSlide' = Absent
  /\ event' = NoEvent
  /\ UNCHANGED <<stage, navState, formVars, formStore, inflight, pptFormData, pptErrors,
                 isPptLoading, editPrompt, isEditing, isDownloading, pptError, videoVars,
                 ls_pptFormData, videoStore>>

handleVideoChange(name, value) ==
  /\ videoModalShown
  /\ LET updated == [videoFormData EXCEPT ![name] = value]
     IN /\ videoFormData' = updated
        /\ ls_videoFormData' = JSONstringify(updated)
  /\ videoErrors' = clearIn(videoErrors, VideoKeys, name)
  /\ event' = NoEvent
  /\ UNCHANGED <<stage, navState, formVars, formStore, inflight, activeCard, deckVars,
                 isVideoLoading, generatedVideo, videoError, deckStore, ls_generatedVideo>>

\* handleGenerateVideo up to its await; the button is disabled while isVideoLoading
handleGenerateVideo ==
  /\ videoModalShown
  /\ ~isVideoLoading
  /\ LET newErrors == validateVideoForm(videoFormData)
     IN /\ videoErrors' = newErrors
        /\ IF ~noVideoKeys(newErrors)
           THEN UNCHANGED <<isVideoLoading, videoError, inflight>>
           ELSE /\ Len(inflight) < MaxInFlight
                /\ isVideoLoading' = TRUE
                /\ videoError' = <<>>
                /\ inflight' = Append(inflight, videoRequest(videoFormData))
  /\ event' = NoEvent
  /\ UNCHANGED <<stage, navState, formVars, formStore, presStore, activeCard, deckVars,
                 videoFormData, generatedVideo>>

\* handleGenerateVideo from its await on
videoSettled(i, outcome) ==
  /\ i \in DOMAIN inflight
  /\ inflight[i].kind = "video"
  /\ LET req == inflight[i]
         mounted == req.live /\ ~renderThrows
     IN /\ event' = [kind |-> "video", live |-> mounted, outcome |-> outcome]
        /\ inflight' = RemoveAt(inflight, i)
        /\ IF outcome.type = "http" /\ outcome.ok
           THEN /\ ls_generatedVideo' = JSONstringify(outcome.body)
                /\ IF mounted
                   THEN /\ generatedVideo' = outcome.body
                        /\ isVideoLoading' = FALSE
                   ELSE UNCHANGED <<generatedVideo, isVideoLoading>>
                /\ UNCHANGED videoError
           ELSE /\ IF mounted
                   THEN /\ videoError' = deckCatchMessage(
                                           deckThrown(outcome, <<"Failed to generate video">>),
                                           PptUnreachable)
                        /\ isVideoLoading' = FALSE
                   ELSE UNCHANGED <<videoError, isVideoLoading>>
                /\ UNCHANGED <<generatedVideo, ls_generatedVideo>>
  /\ UNCHANGED <<stage, navState, formVars, formStore, activeCard, deckVars,
                 videoFormData, videoErrors, deckStore, ls_videoFormData>>

(***************************************************************************)
(* The form stage's specification: what the user can enter and what the    *)
(* server can answer                                                       *)
(***************************************************************************)
\* snapshots an earlier session may have left (the free-text country input
\* of the form's earlier variant stores what was typed)
LegacyCountries == {<<"Atlantis">>, <<"France", SP>>}

SavedSnapshots ==
  {Absent, Corrupt} \cup
  {JSONstringify(dataToSave([DefaultFormData EXCEPT !.country = c])) : c \in LegacyCountries}

FormEdits ==
  ({"country"} \X ({<<>>} \cup countries))
  \cup ({"city"} \X {<<>>, <<SP>>, <<"Paris">>})
  \cup ({"rawIdea"} \X {<<>>, <<SP, "bakery">>})
  \cup ({"timeCommitment"} \X {<<>>, <<"full-time">>})

Files == {"notes.txt"}

AnalyzeOutcomes == TransportFailures \cup ErrorResponses \cup AnalysisResponses

InitPresUnmounted ==
  /\ activeCard = "none"
  /\ pptFormData = DefaultPptData
  /\ pptErrors = NoPptErrors
  /\ isPptLoading = FALSE
  /\ presentation = NoDeck
  /\ currentSlide = 0
  /\ editPrompt = <<>>
  /\ isEditing = FALSE
  /\ isDownloading = FALSE
  /\ pptError = <<>>
  /\ videoFormData = DefaultVideoData
  /\ videoErrors = NoVideoErrors
  /\ isVideoLoading = FALSE
  /\ generatedVideo = NoVideo
  /\ videoError = <<>>

InitPresStoreEmpty ==
  /\ ls_pptFormData = Absent
  /\ ls_presentation = Absent
  /\ ls_currentSlide = Absent
  /\ ls_videoFormData = Absent
  /\ ls_generatedVideo = Absent

InitForm ==
  /\ stage = "Landing"
  /\ navState = NoNavState
  /\ formData = DefaultFormData
  /\ termsAccepted = FALSE
  /\ errors = NoErrors
  /\ isLoading = FALSE
  /\ apiError = <<>>
  /\ ls_formData \in SavedSnapshots
  /\ ls_termsAccepted \in {"<null>", "true"}
  /\ InitPresUnmounted
  /\ InitPresStoreEmpty
  /\ inflight = <<>>
  /\ event = NoEvent

NextForm ==
  \/ handleStart
  \/ \E e \in FormEdits : handleChange(e[1], e[2])
  \/ \E f \in Files : handleFileChange(<<f>>)
  \/ \E i \in 1..MaxFiles : handleRemoveFile(i)
  \/ \E v \in BOOLEAN : termsChange(v)
  \/ handleSubmit
  \/ \E i \in 1..MaxInFlight, o \in AnalyzeOutcomes : analyzeSettled(i, o)
  \/ handleBackToLanding
  \/ reload

SpecForm == InitForm /\ [][NextForm]_vars

(***************************************************************************)
(* The Presentation/Video stage's specification: the page is opened on     *)
(* /presentation with an empty store                                       *)
(***************************************************************************)
MaxSlides == 3

deckOf(id, n) == [presentation_title |-> id, slides |-> [k \in 1..n |-> k]]

ServerDecks == {deckOf("deck1", MaxSlides), deckOf("deck2", 1)}

DeckResponses ==
  {[type |-> "http", ok |-> TRUE, status |-> "200", body |-> d] : d \in ServerDecks}

VideoResponses ==
  {[type |-> "http", ok |-> TRUE, status |-> "200", body |-> [video_url |-> <<"video1.mp4">>]]}

DeckErrorResponses ==
  {[type |-> "http", ok |-> FALSE, status |-> "500", detail |-> d] :
     d \in {NoDetail, StringDetail(<<"quota exceeded">>), NonJsonDetail, NullBody}}

DeckTransportFailures ==
  {f \in TransportFailures : f.message = <<"Failed to fetch">>}

DeckOutcomes == DeckTransportFailures \cup DeckErrorResponses \cup DeckResponses
VideoOutcomes ==
  DeckTransportFailures
  \cup {[type |-> "http", ok |-> FALSE, status |-> "500", detail |-> NullBody]}
  \cup VideoResponses

PptEdits == {<<"numberOfSlides", <<"4">>>>}
VideoEdits == {<<"prompt", <<"demo">>>>}

\* an earlier visit left a duration in the video form
SavedVideoData == [DefaultVideoData EXCEPT !.timeRequired = <<"8">>]
EditPrompts == {<<>>, <<"shorter">>}

InitDeck ==
  /\ stage = "Presentation"
  /\ navState = NoNavState
  /\ formData = DefaultFormData
  /\ termsAccepted = FALSE
  /\ errors = NoErrors
  /\ isLoading = FALSE
  /\ apiError = <<>>
  /\ ls_formData = Absent
  /\ ls_termsAccepted = "<null>"
  /\ activeCard = "none"
  /\ ls_pptFormData = Absent
  /\ pptFormData = loadSavedPptData(ls_pptFormData)
  /\ pptErrors = NoPptErrors
  /\ isPptLoading = FALSE
  /\ ls_presentation = Absent
  /\ presentation = loadSavedPresentation(ls_presentation)
  /\ ls_currentSlide = Absent
  /\ currentSlide = loadCurrentSlide(ls_currentSlide)
  /\ editPrompt = <<>>
  /\ isEditing = FALSE
  /\ isDownloading = FALSE
  /\ pptError = <<>>
  /\ ls_videoFormData = JSONstringify(SavedVideoData)
  /\ videoFormData = loadSavedVideoData(ls_videoFormData)
  /\ videoErrors = NoVideoErrors
  /\ isVideoLoading = FALSE
  /\ ls_generatedVideo = Absent
  /\ generatedVideo = loadSavedVideo(ls_generatedVideo)
  /\ videoError = <<>>
  /\ inflight = <<>>
  /\ event = NoEvent

NextDeck ==
  \/ handleBack
  \/ createPresentation
  \/ \E c \in {"ppt", "video"} : openCard(c)
  \/ closeCard
  \/ \E e \in PptEdits : handlePptChange(e[1], e[2])
  \/ handleCreatePresentation
  \/ \E i \in 1..MaxInFlight, o \in DeckOutcomes : generateSettled(i, o)
  \/ \E v \in EditPrompts : editPromptChange(v)
  \/ handleEditPresentation
  \/ \E i \in 1..MaxInFlight, o \in DeckOutcomes : editSettled(i, o)
  \/ \E k \in 0..(MaxSlides - 1) : goToSlide(k)
  \/ nextSlide
  \/ prevSlide
  \/ startOver
  \/ handleBackToCardSelection
  \/ \E e \in VideoEdits : handleVideoChange(e[1], e[2])
  \/ handleGenerateVideo
  \/ \E i \in 1..MaxInFlight, o \in VideoOutcomes : videoSettled(i, o)
  \/ reload

SpecDeck == InitDeck /\ [][NextDeck]_vars

(***************************************************************************)
(* The form with every required field filled in, the business name being   *)
(* edited, and analyses that carry or omit a suggested name and a          *)
(* disclaimer (<<>> is an omitted field).                                  *)
(***************************************************************************)
NameInputs == {<<>>, <<SP>>, <<SP, "Bakery">>}

\* the values of the AI Model select's options
ModelOptions == {<<"chatgpt-latest">>, <<"google-gemini-flash">>}

NameResponses ==
  {[type |-> "http", ok |-> TRUE, status |-> "200",
    body |-> [id |-> "analysis", suggested_business_name |-> n, disclaimer |-> d]] :
     n \in {<<>>, <<SP>>, <<"Acme AI", SP>>}, d \in {<<>>, <<"estimates only">>}}

InitName ==
  /\ stage = "Form"
  /\ navState = NoNavState
  /\ ls_formData = JSONstringify(dataToSave(
       [DefaultFormData EXCEPT !.country = <<"France">>, !.city = <<"Paris">>,
                               !.rawIdea = <<"bakery">>, !.timeCommitment = <<"full-time">>]))
  /\ ls_termsAccepted = "true"
  /\ formData = loadSavedFormData(ls_formData)
  /\ termsAccepted = loadSavedTerms(ls_termsAccepted)
  /\ errors = NoErrors
  /\ isLoading = FALSE
  /\ apiError = <<>>
  /\ InitPresUnmounted
  /\ InitPresStoreEmpty
  /\ inflight = <<>>
  /\ event = NoEvent

NextName ==
  \/ handleStart
  \/ \E n \in NameInputs : handleChange("businessName", n)
  \/ \E m \in ModelOptions : handleChange("model", m)
  \/ handleSubmit
  \/ \E i \in 1..MaxInFlight, o \in DeckTransportFailures \cup NameResponses :
       analyzeSettled(i, o)
  \/ handleBackToLanding
  \/ createPresentation
  \/ handleBack
  \/ reload

SpecName == InitName /\ [][NextName]_vars


(***************************************************************************)
(* The deck form's specification: what can be typed into the two number    *)
(* inputs of the presentation card                                         *)
(***************************************************************************)
SlideCountInputs ==
  {<<>>, <<"4">>, <<"5">>, <<"7", ".", "5">>, <<"1", "5">>, <<"1", "6">>, <<"1", "e", "1">>}

DurationInputs ==
  {<<>>, <<"2">>, <<"3">>, <<"1", "5">>, <<"1", "6">>, <<"1", "e", "1">>}

GenEdits ==
  ({"numberOfSlides"} \X SlideCountInputs) \cup ({"timeRequired"} \X DurationInputs)

GenOutcomes ==
  DeckTransportFailures
  \cup {[type |-> "http", ok |-> TRUE, status |-> "200", body |-> d] :
          d \in {deckOf("deck2", 1), deckOf("deck0", 0)}}

InitGen ==
  /\ stage = "Presentation"
  /\ navState = NoNavState
  /\ formData = DefaultFormData
  /\ termsAccepted = FALSE
  /\ errors = NoErrors
  /\ isLoading = FALSE
  /\ apiError = <<>>
  /\ ls_formData = Absent
  /\ ls_termsAccepted = "<null>"
  /\ InitPresUnmounted
  /\ InitPresStoreEmpty
  /\ inflight = <<>>
  /\ event = NoEvent

NextGen ==
  \/ openCard("ppt")
  \/ closeCard
  \/ \E e \in GenEdits : handlePptChange(e[1], e[2])
  \/ handleCreatePresentation
  \/ \E i \in 1..MaxInFlight, o \in GenOutcomes : generateSettled(i, o)
  \/ handleBackToCardSelection
  \/ reload

SpecGen == InitGen /\ [][NextGen]_vars

(***************************************************************************)
(* The deck viewer's specification: an earlier visit left a deck, which    *)
(* is viewed, exported, edited and discarded                               *)
(***************************************************************************)
ExportResponses ==
  {[type |-> "http", ok |-> TRUE, status |-> "200", body |-> [blob |-> "pptx"]]}

ExportOutcomes ==
  DeckTransportFailures
  \cup {[type |-> "http", ok |-> FALSE, status |-> "500", detail |-> NoDetail]}
  \cup ExportResponses

ViewerDeckOutcomes ==
  DeckTransportFailures
  \cup {[type |-> "http", ok |-> TRUE, status |-> "200", body |-> deckOf("deck2", 1)]}

\* decks an earlier visit may have left, one of them without slides
SavedDecks == {deckOf("deck1", MaxSlides), deckOf("deck0", 0)}

InitExport ==
  /\ stage = "Presentation"
  /\ navState = NoNavState
  /\ formData = DefaultFormData
  /\ termsAccepted = FALSE
  /\ errors = NoErrors
  /\ isLoading = FALSE
  /\ apiError = <<>>
  /\ ls_formData = Absent
  /\ ls_termsAccepted = "<null>"
  /\ activeCard = "none"
  /\ ls_pptFormData = Absent
  /\ pptFormData = loadSavedPptData(ls_pptFormData)
  /\ pptErrors = NoPptErrors
  /\ isPptLoading = FALSE
  /\ ls_presentation \in {JSONstringify(d) : d \in SavedDecks}
  /\ presentation = loadSavedPresentation(ls_presentation)
  /\ ls_currentSlide = StoredText(<<"0">>)
  /\ currentSlide = loadCurrentSlide(ls_currentSlide)
  /\ editPrompt = <<>>
  /\ isEditing = FALSE
  /\ isDownloading = FALSE
  /\ pptError = <<>>
  /\ ls_videoFormData = Absent
  /\ videoFormData = loadSavedVideoData(ls_videoFormData)
  /\ videoErrors = NoVideoErrors
  /\ isVideoLoading = FALSE
  /\ ls_generatedVideo = Absent
  /\ generatedVideo = loadSavedVideo(ls_generatedVideo)
  /\ videoError = <<>>
  /\ inflight = <<>>
  /\ event = NoEvent

NextExport ==
  \/ handleDownloadPptx
  \/ \E i \in 1..MaxInFlight, o \in ExportOutcomes : exportSettled(i, o)
  \/ \E k \in 0..(MaxSlides - 1) : goToSlide(k)
  \/ nextSlide
  \/ prevSlide
  \/ \E v \in EditPrompts : editPromptChange(v)
  \/ handleEditPresentation
  \/ \E i \in 1..MaxInFlight, o \in ViewerDeckOutcomes : editSettled(i, o)
  \/ startOver
  \/ handleBackToCardSelection
  \/ openCard("ppt")
  \/ closeCard
  \/ handleCreatePresentation
  \/ \E i \in 1..MaxInFlight, o \in ViewerDeckOutcomes : generateSettled(i, o)
  \/ handleBack
  \/ createPresentation
  \/ reload

SpecExport == InitExport /\ [][NextExport]_vars

(***************************************************************************)
(* localStorage at its quota: any setItem may throw.  The form with a      *)
(* field being edited, and the viewer with a persisted deck.               *)
(***************************************************************************)
NextQuota ==
  \/ handleStart
  \/ \E n \in NameInputs : handleChange("businessName", n)
  \/ \E n \in NameInputs : handleChangeQuota("businessName", n)
  \/ handleBackToLanding
  \/ \E k \in 0..(MaxSlides - 1) : goToSlide(k)
  \/ \E k \in 0..(MaxSlides - 1) : goToSlideQuota(k)
  \/ \E v \in EditPrompts : editPromptChange(v)
  \/ handleEditPresentation
  \/ \E i \in 1..MaxInFlight, o \in ViewerDeckOutcomes : editSettled(i, o)
  \/ \E i \in 1..MaxInFlight, o \in ViewerDeckOutcomes : editSettledQuota(i, o)
  \/ startOver
  \/ handleCreatePresentation
  \/ \E i \in 1..MaxInFlight, o \in ViewerDeckOutcomes : generateSettled(i, o)
  \/ \E i \in 1..MaxInFlight, o \in ViewerDeckOutcomes : generateSettledQuota(i, o)
  \/ reload

SpecQuota == (InitName \/ InitExport) /\ [][NextQuota]_vars

(***************************************************************************)
(* The video form's specification: what can be typed into the video card   *)
(***************************************************************************)
VideoDurationInputs ==
  {<<>>, <<"3">>, <<"5", ".", "9">>, <<"6">>, <<"7", ".", "5">>, <<"1", "e", "1">>,
   <<"1", "1">>}

VideoPromptInputs == {<<>>, <<SP>>, <<"demo">>}

VideoFormEdits ==
  ({"timeRequired"} \X VideoDurationInputs) \cup ({"prompt"} \X VideoPromptInputs)

InitVideo ==
  /\ stage = "Presentation"
  /\ navState = NoNavState
  /\ formData = DefaultFormData
  /\ termsAccepted = FALSE
  /\ errors = NoErrors
  /\ isLoading = FALSE
  /\ apiError = <<>>
  /\ ls_formData = Absent
  /\ ls_termsAccepted = "<null>"
  /\ InitPresUnmounted
  /\ InitPresStoreEmpty
  /\ inflight = <<>>
  /\ event = NoEvent

NextVideo ==
  \/ openCard("video")
  \/ closeCard
  \/ \E e \in VideoFormEdits : handleVideoChange(e[1], e[2])
  \/ handleGenerateVideo
  \/ \E i \in 1..MaxInFlight, o \in VideoOutcomes : videoSettled(i, o)
  \/ handleBack
  \/ createPresentation
  \/ reload

SpecVideo == InitVideo /\ [][NextVideo]_vars

(***************************************************************************)
(* Properties of the form stage                                            *)
(***************************************************************************)
IsBlank(s) == \A i \in 1..Len(s) : s[i] = SP

\* the five rules of the form, stated on the form values
RuleMet(k) ==
  CASE k = "country" -> ~IsBlank(formData.country) /\ formData.country \in countries
    [] k = "city" -> ~IsBlank(formData.city)
    [] k = "rawIdea" -> ~IsBlank(formData.rawIdea)
    [] k = "timeCommitment" -> Len(formData.timeCommitment) > 0
    [] k = "terms" -> termsAccepted

AllRulesMet == \A k \in ErrKeys : RuleMet(k)

\* the step issues a request
RequestIssued == Len(inflight') > Len(inflight)

\* the step puts a new message into the field-error map
NewErrorShown == \E k \in ErrKeys : Truthy(errors'[k]) /\ errors'[k] # errors[k]

pendingAnalyses == {i \in DOMAIN inflight : inflight[i].kind = "analyze"}

\* C1: validateForm is valid exactly when the five rules are met, and its
\* error map has an entry for exactly the rules that are unmet.
C1_ValidateForm ==
  stage = "Form" =>
    LET newErrors == validateForm(formData, termsAccepted)
    IN /\ noKeys(newErrors) <=> AllRulesMet
       /\ \A k \in ErrKeys : Truthy(newErrors[k]) <=> ~RuleMet(k)

\* a submit was rejected with the city and terms rules unmet and the others met
C1_Witness ==
  /\ stage = "Form"
  /\ errors = validateForm(formData, termsAccepted)
  /\ Truthy(errors["city"]) /\ Truthy(errors["terms"])
  /\ ~Truthy(errors["country"]) /\ ~Truthy(errors["rawIdea"])
  /\ ~Truthy(errors["timeCommitment"])
  /\ formData.country \in countries

\* C2: with a non-empty country that is not in the known-country list,
\* validation reports an error on the country field, a submit shows it, and
\* no step issues a request.
C2_UnknownCountry ==
  [][(stage = "Form" /\ Truthy(formData.country) /\ formData.country \notin countries)
       => /\ Truthy(validateForm(formData, termsAccepted)["country"])
          /\ ~RequestIssued
          /\ (NewErrorShown => Truthy(errors'["country"]))]_vars

\* a submit was rejected only because the country is not in the list
C2_Witness ==
  /\ stage = "Form"
  /\ formData.country = <<"Atlantis">>
  /\ \A k \in ErrKeys \ {"country"} : RuleMet(k) /\ ~Truthy(errors[k])
  /\ errors["country"] = <<"Please select a country from the dropdown">>
  /\ inflight = <<>>
  /\ ~isLoading

\* C3: a submit whose validation fails issues no request and changes nothing
\* but the field-error map.
C3_FailedValidationFrame ==
  [][(stage = "Form" /\ ~AllRulesMet)
       => /\ ~RequestIssued
          /\ (NewErrorShown =>
                /\ ~isLoading'
                /\ UNCHANGED <<stage, navState, formData, termsAccepted, isLoading,
                               apiError, ls_formData, ls_termsAccepted, inflight>>)]_vars

\* a rejected submit left the banner of an earlier failed request in place
C3_Witness ==
  /\ stage = "Form"
  /\ ~AllRulesMet
  /\ errors = validateForm(formData, termsAccepted)
  /\ apiError = <<"rate limited">>
  /\ ~isLoading
  /\ inflight = <<>>

\* the step handled a non-success response to a request of the mounted form
ErrorResponseHandled ==
  /\ event'.kind = "analyze"
  /\ event'.live
  /\ event'.outcome.type = "http"
  /\ ~event'.outcome.ok

\* the detail message of a response body: a string as it is, a list of
\* sub-errors as their messages joined into one string
detailMessage(detail) ==
  CASE detail.kind = "string" -> detail.text
    [] detail.kind = "list" ->
         joinWith([i \in DOMAIN detail.items |-> detail.items[i].msg], <<";", SP>>)
    [] OTHER -> <<>>

\* C4: a non-success answer to /api/analyze shows the body's detail message
\* (or, without a detail, the generic message with the HTTP status), stays on
\* the form and leaves the form values and the persisted snapshot unchanged.
C4_ErrorResponse ==
  [][ErrorResponseHandled
       => /\ stage = "Form" /\ stage' = "Form"
          /\ UNCHANGED <<formData, termsAccepted, ls_formData, ls_termsAccepted, navState>>
          /\ LET detail == event'.outcome.detail
             IN IF Truthy(detailMessage(detail))
                THEN apiError' = detailMessage(detail)
                ELSE /\ Len(apiError') = 3
                     /\ apiError'[2] = event'.outcome.status]_vars

\* C6: on the form stage, what a reload would read back from localStorage is
\* what the form holds (values and terms flag), the snapshot never holds the
\* file attachments, and after a reload the attachments are empty.
C6_RoundTrip ==
  stage = "Form" =>
    /\ dataToSave(loadSavedFormData(ls_formData)) = dataToSave(formData)
    /\ loadSavedFormData(ls_formData).fileAttachments = <<>>
    /\ (ls_formData.kind = "json" => "fileAttachments" \notin DOMAIN ls_formData.value)
    /\ (ls_termsAccepted # "<null>" => loadSavedTerms(ls_termsAccepted) = termsAccepted)
    /\ (ls_termsAccepted = "<null>" => ~termsAccepted)
    /\ (event.kind = "reload" => formData.fileAttachments = <<>>)

\* a reload brought back the edited values and the terms flag
C6_Witness ==
  /\ stage = "Form"
  /\ event.kind = "reload"
  /\ formData.city = <<"Paris">>
  /\ formData.rawIdea = <<SP, "bakery">>
  /\ formData.country = <<"France">>
  /\ termsAccepted
  /\ formData.fileAttachments = <<>>

\* C7: on the form stage at most one analysis request is pending, and the
\* busy flag is true exactly while one is.
C7_OnePending ==
  stage = "Form" =>
    /\ Cardinality(pendingAnalyses) <= 1
    /\ (pendingAnalyses # {} <=> isLoading)

(***************************************************************************)
(* Properties of the AI calls and of the Presentation/Video stage          *)
(***************************************************************************)
Unreachables == {FormUnreachable, PptUnreachable, EditUnreachable}

AICalls == {"analyze", "generate", "edit", "video"}

\* the banner of the call the step handled, before and after the step
bannerBefore ==
  CASE event'.kind = "analyze" -> apiError
    [] event'.kind = "video" -> videoError
    [] OTHER -> pptError

bannerAfter ==
  CASE event'.kind = "analyze" -> apiError'
    [] event'.kind = "video" -> videoError'
    [] OTHER -> pptError'

\* C5: when the outcome of an analysis, deck-generate, deck-edit or
\* video-generate call is handled, the fixed server-unreachable message is
\* shown if no HTTP response was obtained, and is never the message shown
\* for a response, success or non-success.
C5_UnreachableIffNoResponse ==
  [][(event'.kind \in AICalls /\ event'.live)
       => /\ event'.outcome.type = "transport" => bannerAfter \in Unreachables
          /\ (event'.outcome.type = "http" /\ ~event'.outcome.ok)
               => bannerAfter \notin Unreachables
          /\ (event'.outcome.type = "http" /\ event'.outcome.ok)
               => (bannerAfter \notin Unreachables \/ bannerAfter = bannerBefore)]_vars

deckCallsInFlight ==
  {i \in DOMAIN inflight : inflight[i].kind \in {"generate", "edit", "video"}}

\* C8: on the Presentation/Video stage at most one of the deck-generate,
\* deck-edit and video-generate calls is in flight at any time.
C8_OneCallInFlight ==
  stage = "Presentation" => Cardinality(deckCallsInFlight) <= 1

\* C9: whenever a deck of N slides is displayed, the current slide index is
\* within 0..N-1.
C9_IndexInRange ==
  deckDisplayed => currentSlide \in 0..(Len(presentation.slides) - 1)

IntegerIn(s, lo, hi) ==
  /\ ~IsBlank(s)
  /\ ~Number(s).nan
  /\ Number(s).num % Number(s).den = 0
  /\ lo * Number(s).den <= Number(s).num
  /\ Number(s).num <= hi * Number(s).den

\* the number a text denotes is within [lo, hi]
NumberIn(s, lo, hi) ==
  /\ ~IsBlank(s)
  /\ ~Number(s).nan
  /\ lo * Number(s).den <= Number(s).num
  /\ Number(s).num <= hi * Number(s).den

PptRulesMet ==
  /\ IntegerIn(pptFormData.numberOfSlides, 5, 15)
  /\ NumberIn(pptFormData.timeRequired, 3, 15)

GenerateIssued ==
  /\ Len(inflight') = Len(inflight) + 1
  /\ inflight'[Len(inflight')].kind = "generate"

\* C11: a deck-generate request is issued only for a slide count that is an
\* integer in [5,15] and a duration in [3,15]; it carries num_slides in 5..15
\* and duration_minutes in 3..15; a submit of other input sets a field error
\* and issues no request.
C11_PptValidation ==
  [][/\ GenerateIssued
          => /\ PptRulesMet
             /\ LET req == inflight'[Len(inflight')]
                IN /\ ~req.num_slides.nan /\ req.num_slides.den = 1
                   /\ req.num_slides.num \in 5..15
                   /\ ~req.duration_minutes.nan /\ req.duration_minutes.den = 1
                   /\ req.duration_minutes.num \in 3..15
     /\ (handleCreatePresentation /\ ~PptRulesMet)
          => /\ ~GenerateIssued
             /\ \E k \in PptKeys : Truthy(pptErrors'[k])]_vars

GenerateHandled == event'.kind = "generate"

\* C12: handling a successful deck generation issues no further call and
\* ends with the returned deck in memory and in persistence, the slide index
\* 0 in both and the busy flag false; handling a failed one ends with no deck
\* in memory or persistence and an error banner.
C12_GenerateOutcome ==
  [][(GenerateHandled /\ stage' = "Presentation")
       => /\ Len(inflight') = Len(inflight) - 1
          /\ (event'.outcome.type = "http" /\ event'.outcome.ok)
               => /\ presentation' = event'.outcome.body
                  /\ ls_presentation' = JSONstringify(event'.outcome.body)
                  /\ currentSlide' = 0
                  /\ ls_currentSlide' = StoredText(<<"0">>)
                  /\ ~isPptLoading'
          /\ ~(event'.outcome.type = "http" /\ event'.outcome.ok)
               => /\ presentation' = NoDeck
                  /\ ls_presentation' = Absent
                  /\ Truthy(pptError')]_vars

EditSucceeded ==
  /\ event'.kind = "edit"
  /\ event'.outcome.type = "http"
  /\ event'.outcome.ok

\* C13: handling a successful deck edit replaces the deck in memory and the
\* persisted deck by the returned deck, clears the instruction input and
\* leaves the slide index unchanged.
C13_EditReplaces ==
  [][(EditSucceeded /\ stage' = "Presentation")
       => /\ presentation' = event'.outcome.body
          /\ ls_presentation' = JSONstringify(event'.outcome.body)
          /\ editPrompt' = <<>>
          /\ UNCHANGED <<currentSlide, ls_currentSlide>>]_vars

\* the state of the deck sub-flow, "none" when it is none of the four
deckFlow(deck, generating, editing) ==
  CASE deck = NoDeck /\ ~generating /\ ~editing -> "Idle"
    [] deck = NoDeck /\ generating /\ ~editing -> "Generating"
    [] deck # NoDeck /\ ~generating /\ ~editing -> "Viewing"
    [] deck # NoDeck /\ ~generating /\ editing -> "Editing"
    [] OTHER -> "none"

DeckFlowEdges ==
  {<<"Idle", "Generating">>, <<"Generating", "Viewing">>, <<"Generating", "Idle">>,
   <<"Viewing", "Editing">>, <<"Editing", "Viewing">>, <<"Viewing", "Idle">>}

EditIssued ==
  /\ Len(inflight') = Len(inflight) + 1
  /\ inflight'[Len(inflight')].kind = "edit"

CallFailed(kind) ==
  /\ event'.kind = kind
  /\ ~(event'.outcome.type = "http" /\ event'.outcome.ok)

\* C14: while the Presentation stage is shown the deck sub-flow is in one of
\* Idle, Generating, Viewing, Editing and moves only along Idle -> Generating
\* -> Viewing <-> Editing, Generating -> Idle and Viewing -> Idle; an edit
\* request is issued only with a deck and a non-blank instruction; a failed
\* generation ends in Idle; a failed edit ends in Viewing with the deck, the
\* persisted deck and the typed instruction unchanged.
C14_DeckFlow ==
  [][(stage = "Presentation" /\ stage' = "Presentation" /\ event'.kind # "reload")
       => LET from == deckFlow(presentation, isPptLoading, isEditing)
              to == deckFlow(presentation', isPptLoading', isEditing')
          IN /\ to # "none"
             /\ from # to => <<from, to>> \in DeckFlowEdges
             /\ EditIssued => (presentation # NoDeck /\ ~IsBlank(editPrompt))
             /\ CallFailed("generate") => to = "Idle"
             /\ CallFailed("edit")
                  => /\ to = "Viewing"
                     /\ UNCHANGED <<presentation, ls_presentation, editPrompt>>]_vars

\* C15: an export, whether it succeeds or fails, changes neither the deck,
\* the persisted deck nor the slide index; every export of a deck with
\* slides issues its own request carrying the deck as it is, and an export
\* of a deck without slides issues none.
C15_ExportFrame ==
  [][event'.kind \in {"exportClick", "export"}
       => /\ UNCHANGED <<presentation, ls_presentation, currentSlide, ls_currentSlide>>
          /\ event'.kind = "exportClick"
               => IF Len(presentation.slides) = 0
                  THEN inflight' = inflight
                  ELSE /\ Len(inflight') = Len(inflight) + 1
                       /\ SubSeq(inflight', 1, Len(inflight)) = inflight
                       /\ inflight'[Len(inflight')].kind = "export"
                       /\ inflight'[Len(inflight')].presentation = presentation]_vars

\* an export of the three-slide deck, viewed at its last slide, has failed:
\* the deck is as before and the export button is enabled for the next export
C15_Witness ==
  /\ event.kind = "export"
  /\ event.live
  /\ event.outcome.type = "http"
  /\ ~event.outcome.ok
  /\ deckDisplayed
  /\ presentation = deckOf("deck1", MaxSlides)
  /\ ls_presentation = JSONstringify(presentation)
  /\ currentSlide = MaxSlides - 1
  /\ ls_currentSlide = StoredText(intToString(MaxSlides - 1))
  /\ ~isDownloading
  /\ pptError = <<"Failed to export PPTX">>

VideoRulesMet ==
  /\ NumberIn(videoFormData.timeRequired, 6, 10)
  /\ ~IsBlank(videoFormData.prompt)

VideoIssued ==
  /\ Len(inflight') = Len(inflight) + 1
  /\ inflight'[Len(inflight')].kind = "video"

\* C16: a video-generate request is issued only for a duration that is a
\* number in [6,10] and a non-blank prompt; a submit of other input sets a
\* field error, issues no request and leaves the generated video, in memory
\* and persisted, unchanged.
C16_VideoValidation ==
  [][/\ VideoIssued => VideoRulesMet
     /\ (handleGenerateVideo /\ ~VideoRulesMet)
          => /\ inflight' = inflight
             /\ \E k \in VideoKeys : Truthy(videoErrors'[k])
             /\ UNCHANGED <<generatedVideo, ls_generatedVideo>>]_vars

\* a duration of 3 seconds was rejected while an earlier video is kept
C16_Witness ==
  /\ videoFormData.timeRequired = <<"3">>
  /\ ~IsBlank(videoFormData.prompt)
  /\ Truthy(videoErrors["timeRequired"])
  /\ ~Truthy(videoErrors["prompt"])
  /\ generatedVideo # NoVideo
  /\ ls_generatedVideo = JSONstringify(generatedVideo)
  /\ inflight = <<>>
  /\ ~isVideoLoading

\* C17: returning to the generator selection, from a card or from the deck
\* viewer, loses neither the generated deck nor the generated video, in
\* memory or in persistence.
C17_SelectionKeepsArtifacts ==
  [][(closeCard \/ handleBackToCardSelection)
       => /\ cardsShown'
          /\ UNCHANGED <<presentation, ls_presentation, generatedVideo, ls_generatedVideo>>]_vars

\* C18: start over ends with no deck in memory, the persisted deck and the
\* persisted index removed and the index 0, and leaves the persisted video,
\* the video form and the deck form as they are; from Viewing it leads to
\* Idle.
C18_StartOver ==
  [][event'.kind = "reset"
       => /\ presentation' = NoDeck
          /\ ls_presentation' = Absent
          /\ ls_currentSlide' = Absent
          /\ currentSlide' = 0
          /\ UNCHANGED <<generatedVideo, ls_generatedVideo, videoFormData, ls_videoFormData,
                         pptFormData, ls_pptFormData>>
          /\ deckFlow(presentation, isPptLoading, isEditing) = "Viewing"
               => deckFlow(presentation', isPptLoading', isEditing') = "Idle"]_vars

\* the deck was discarded by start over while a generated video and the
\* typed video prompt are kept
C18_Witness ==
  /\ event.kind = "reset"
  /\ stage = "Presentation"
  /\ presentation = NoDeck
  /\ ls_presentation = Absent
  /\ ls_currentSlide = Absent
  /\ currentSlide = 0
  /\ ~isPptLoading /\ ~isEditing
  /\ ls_generatedVideo # Absent
  /\ videoFormData.prompt = <<"demo">>
  /\ ls_videoFormData = JSONstringify(videoFormData)

\* C19: once a deck or a video exists, going back to Results and forward
\* again, or reloading, shows the same deck at the same index and the same
\* video and issues no request.  Step by step: a reload of the page leaves
\* the deck, the index and the video shown as they were; no step of the page
\* other than start over drops the persisted deck or the persisted video, so
\* that they outlive the way back to Results; and the way forward shows what
\* is persisted.
C19_BackForwardReload ==
  [][/\ (event'.kind = "reload" /\ presUsable)
          => /\ UNCHANGED <<presentation, currentSlide, generatedVideo>>
             /\ inflight' = <<>>
     /\ (stage = "Presentation" /\ event'.kind # "reset")
          => /\ ls_presentation # Absent => ls_presentation' # Absent
             /\ ls_generatedVideo # Absent => ls_generatedVideo' # Absent
     /\ (stage = "Results" /\ stage' = "Presentation")
          => /\ ls_presentation # Absent
                  => /\ JSONstringify(presentation') = ls_presentation
                     /\ ls_currentSlide # Absent
                          => StoredText(intToString(currentSlide')) = ls_currentSlide
             /\ ls_generatedVideo # Absent
                  => JSONstringify(generatedVideo') = ls_generatedVideo
             /\ UNCHANGED <<inflight, presStore>>]_vars

\* C20: a successful analysis hands over a businessContext whose
\* business_name is the suggested name when that is non-blank, otherwise the
\* submitted typed name when that is non-blank, otherwise 'My Business'; a
\* response that omits the disclaimer and the suggested name is handled like
\* any other: the results are shown, no banner of either kind appears.
C20_BusinessName ==
  [][\A i \in 1..MaxInFlight, o \in NameResponses :
       analyzeSettled(i, o)
         => LET suggested == o.body.suggested_business_name
                typed == inflight[i].typedName
            IN /\ stage' = "Results"
               /\ navState'.analysisData = o.body
               /\ navState'.businessContext.business_name =
                    IF ~IsBlank(suggested) THEN trim(suggested)
                    ELSE IF ~IsBlank(typed) THEN trim(typed)
                    ELSE <<"My Business">>
               /\ apiError' = <<>>
               /\ disclaimerBanner' = o.body.disclaimer]_vars

\* an analysis without suggested name and disclaimer succeeded for a form
\* with a typed name
C20_Witness ==
  /\ stage = "Results"
  /\ event.kind = "analyze"
  /\ event.outcome.type = "http"
  /\ event.outcome.ok
  /\ event.outcome.body.suggested_business_name = <<>>
  /\ event.outcome.body.disclaimer = <<>>
  /\ navState.businessContext.business_name = <<"Bakery">>
  /\ disclaimerBanner = <<>>

\* C21: a non-success answer to /api/analyze whose detail is a list of
\* sub-errors shows, on the form, the sub-error messages joined into one
\* string.
C21_ListDetailJoined ==
  [][(ErrorResponseHandled /\ event'.outcome.detail.kind = "list")
       => apiError' = detailMessage(event'.outcome.detail)]_vars

\* C22: a localStorage write that throws does not disturb the caller: the
\* field edit, the slide navigation or the successful generate/edit still
\* completes its change in memory, no error is left unhandled, and no
\* failure banner is shown for the operation.
C22_WriteFailureTolerated ==
  [][/\ event'.kind = "writeFailed" => ~event'.unhandled
     /\ \A n \in NameInputs :
          handleChangeQuota("businessName", n)
            => stage' = "Form" /\ formData' = [formData EXCEPT !.businessName = n]
     /\ \A k \in 0..(MaxSlides - 1) : goToSlideQuota(k) => currentSlide' = k
     /\ \A i \in 1..MaxInFlight, o \in ViewerDeckOutcomes :
          ((generateSettledQuota(i, o) \/ editSettledQuota(i, o)) /\ event'.live)
            => presentation' = o.body /\ pptError' = <<>>]_vars

CallKinds == {"analyze", "generate", "edit", "export", "video"}

\* the busy flag that guards the control issuing requests of a kind, after
\* the step
busyAfter(kind) ==
  CASE kind = "analyze" -> isLoading'
    [] kind = "generate" -> isPptLoading'
    [] kind = "edit" -> isEditing'
    [] kind = "export" -> isDownloading'
    [] kind = "video" -> isVideoLoading'

\* this step handles the outcome of request i, issued by the page still shown
OutcomeArrived(i) ==
  /\ i \in DOMAIN inflight
  /\ inflight[i].live
  /\ event'.kind = inflight[i].kind
  /\ inflight' \in {RemoveAt(inflight, i), orphaned(RemoveAt(inflight, i))}

\* C23: a request enters the network only by its submit control, one at a
\* time, and the handling of an outcome never issues one; when the outcome
\* of a request arrives its busy flag is false again, and after a failure
\* the page that issued it is usable for another attempt.
C23_BusyUntilOutcome ==
  [][/\ Len(inflight') > Len(inflight)
          => /\ event'.kind \notin CallKinds
             /\ Len(inflight') = Len(inflight) + 1
             /\ busyAfter(inflight'[Len(inflight')].kind)
     /\ event'.kind \in CallKinds => Len(inflight') = Len(inflight) - 1
     /\ \A i \in 1..MaxInFlight :
          OutcomeArrived(i)
            => /\ ~busyAfter(inflight[i].kind)
               /\ CallFailed(inflight[i].kind)
                    => IF inflight[i].kind = "analyze"
                       THEN stage' = "Form"
                       ELSE presUsable']_vars

StageEdges ==
  {<<"Landing", "Form">>, <<"Form", "Results">>, <<"Results", "Presentation">>,
   <<"Form", "Landing">>, <<"Presentation", "Results">>}

\* C24: the stage changes only along Landing -> Form -> Results ->
\* Presentation/Video and the back edges Form -> Landing and Presentation ->
\* Results, and a change to Results from the form is the handling of a
\* success response to an analysis request.
C24_StageGraph ==
  [][stage' # stage
       => /\ <<stage, stage'>> \in StageEdges
          /\ (stage = "Form" /\ stage' = "Results")
               => /\ event'.kind = "analyze"
                  /\ event'.outcome.type = "http"
                  /\ event'.outcome.ok]_vars

\* C28: the outcome of an analysis request that arrives when the form stage
\* is no longer shown leaves the stage as it is; Results is entered from the
\* form stage only.
C28_LateAnalysis ==
  [][(event'.kind = "analyze" /\ stage # "Form") => stage' = stage]_vars

\* a real analysis was handed over, or its fields travel in the context
RealAnalysisReceived ==
  \/ navState.analysisData # Undefined
  \/ /\ navState.businessContext # Undefined
     /\ navState.businessContext.aiFields = "analysis"

\* C25: once a real analysis has been received the Results stage shows it
\* and not the sample, also after Presentation -> Back, and the context it
\* forwards to the Presentation stage carries the fields of that analysis.
C25_AnalysisKept ==
  [][/\ (stage' = "Results" /\ RealAnalysisReceived') => resultsData' = "analysis"
     /\ (stage = "Results" /\ stage' = "Presentation" /\ RealAnalysisReceived)
          => navState'.businessContext.aiFields = "analysis"]_vars

\* C26: an analysis request carries the model selected in the form:
\* 'google-gemini-flash' exactly when the Gemini option is selected and
\* 'chatgpt-latest' exactly when the ChatGPT option is selected.
C26_ModelSelection ==
  [][(Len(inflight') = Len(inflight) + 1 /\ inflight'[Len(inflight')].kind = "analyze")
       => LET sent == inflight'[Len(inflight')].model_selection
          IN /\ sent = <<"google-gemini-flash">> <=> formData.model = <<"google-gemini-flash">>
             /\ sent = <<"chatgpt-latest">> <=> formData.model = <<"chatgpt-latest">>]_vars

\* C27: on the Presentation stage a deck that is absent in memory and in
\* persistence stays absent in both until a generate request succeeds; the
\* answer of an edit request does not bring one back.
C27_ClearedDeckStaysCleared ==
  [][(/\ stage = "Presentation" /\ stage' = "Presentation"
      /\ presentation = NoDeck /\ ls_presentation = Absent
      /\ (presentation' # NoDeck \/ ls_presentation' # Absent))
       => /\ event'.kind = "generate"
          /\ event'.outcome.type = "http"
          /\ event'.outcome.ok]_vars

\* C29: on the Presentation/Video stage some control is always offered: the
\* generator selection with its Back button, a generator's form, or the
\* viewer with its buttons.
C29_NoDeadEnd ==
  stage = "Presentation"
    => cardsShown \/ pptModalShown \/ videoModalShown \/ viewerUsable

\* C30: on the Presentation stage, when no request is in progress, the
\* persisted deck is the deck in memory: both absent, or the same deck.
C30_PersistedDeckIsDeck ==
  (stage = "Presentation" /\ inflight = <<>>)
    => IF presentation = NoDeck
       THEN ls_presentation = Absent
       ELSE ls_presentation = JSONstringify(presentation)

====
